---- MODULE Spec2Model ----
(***************************************************************************)
(* pyril: the Python-facing Image class (src/src/image.rs) over the        *)
(* dynamic pixel model (src/src/pixels.rs).                                *)
(*                                                                         *)
(* The Image methods are translated from image.rs.  Every method forwards  *)
(* to the raster engine (RilImage, the error enum of crate::error), whose  *)
(* code is not part of src/; the engine operators below (ril_*, To*,       *)
(* convert, UnexpectedFormat) follow the engine contract of spec.md        *)
(* sections 3, 4 and 7.  An engine failure inside a method whose Rust      *)
(* signature has no error channel for it is a panic of that method.        *)
(***************************************************************************)
EXTENDS Integers, Sequences, FiniteSets, TLC

VARIABLES img, alive, result, ret, last

vars == <<img, alive, result, ret, last>>

(***************************************************************************)
(* Bounds of the model.                                                    *)
(***************************************************************************)
\* largest width, height and coordinate drawn as an input
MaxDim == 2
\* largest number of pixels of an image drawn or built as an input
MaxLen == 2

Min(a, b) == IF a < b THEN a ELSE b

(***************************************************************************)
(* Pixels: the Dynamic pixel, a tagged union (pixels.rs).                  *)
(***************************************************************************)
from_bitpixel(value) == [tag |-> "BitPixel", on |-> value]

from_l(value) == [tag |-> "L", value |-> value]

from_rgb(r, g, b) == [tag |-> "Rgb", r |-> r, g |-> g, b |-> b]

from_rgba(r, g, b, a) == [tag |-> "Rgba", r |-> r, g |-> g, b |-> b, a |-> a]

\* perceptual luma; gray values are fixed points, white is 255, black is 0
Luma(r, g, b) == (299 * r + 587 * g + 114 * b) \div 1000

ToL(p) ==
    CASE p.tag = "BitPixel" -> from_l(IF p.on THEN 255 ELSE 0)
      [] p.tag = "L"        -> p
      [] p.tag = "Rgb"      -> from_l(Luma(p.r, p.g, p.b))
      [] p.tag = "Rgba"     -> from_l(Luma(p.r, p.g, p.b))

ToRgb(p) ==
    CASE p.tag = "Rgb"  -> p
      [] p.tag = "Rgba" -> from_rgb(p.r, p.g, p.b)
      [] OTHER          -> from_rgb(ToL(p).value, ToL(p).value, ToL(p).value)

ToRgba(p) ==
    IF p.tag = "Rgba" THEN p
    ELSE from_rgba(ToRgb(p).r, ToRgb(p).g, ToRgb(p).b, 255)

ToBitPixel(p) ==
    IF p.tag = "BitPixel" THEN p
    ELSE from_bitpixel(ToL(p).value >= 128)

\* convert::<T>() of one pixel: total, never fails
convert_pixel(p, tag) ==
    CASE tag = "BitPixel" -> ToBitPixel(p)
      [] tag = "L"        -> ToL(p)
      [] tag = "Rgb"      -> ToRgb(p)
      [] tag = "Rgba"     -> ToRgba(p)

\* per-pixel complement; alpha is untouched
invert_pixel(p) ==
    CASE p.tag = "BitPixel" -> from_bitpixel(~p.on)
      [] p.tag = "L"        -> from_l(255 - p.value)
      [] p.tag = "Rgb"      -> from_rgb(255 - p.r, 255 - p.g, 255 - p.b)
      [] p.tag = "Rgba"     -> from_rgba(255 - p.r, 255 - p.g, 255 - p.b, p.a)

(***************************************************************************)
(* The engine's image: width, height and a row-major buffer.               *)
(* An engine call yields [ok, img]; ok = FALSE is a failed call.           *)
(***************************************************************************)
RilImage(w, h, d) == [width |-> w, height |-> h, data |-> d]

EmptyImage == RilImage(0, 0, <<>>)

Done(im) == [ok |-> TRUE, img |-> im]

Failed == [ok |-> FALSE, img |-> EmptyImage]

ril_new(width, height, fill) ==
    RilImage(width, height, [i \in 1..(width * height) |-> fill])

\* ShapeError unless the buffer length is an exact multiple of the width
ril_from_pixels(width, pixels) ==
    IF width = 0 \/ Len(pixels) % width # 0 THEN Failed
    ELSE Done(RilImage(width, Len(pixels) \div width, pixels))

ril_len(im) == Len(im.data)

ril_is_empty(im) == Len(im.data) = 0

ril_in_bounds(im, x, y) ==
    x >= 0 /\ y >= 0 /\ x < im.width /\ y < im.height /\ ~ril_is_empty(im)

\* only for (x, y) in bounds
ril_pixel(im, x, y) == im.data[y * im.width + x + 1]

ril_set_pixel(im, x, y, pixel) ==
    IF ~ril_in_bounds(im, x, y) THEN Failed
    ELSE Done([im EXCEPT !.data[y * im.width + x + 1] = pixel])

\* the sub-rectangle [x1, x2) x [y1, y2), clamped; inverted bounds give an
\* empty image
ril_crop(im, x1, y1, x2, y2) ==
    LET cx1 == Min(x1, im.width)
        cx2 == Min(x2, im.width)
        cy1 == Min(y1, im.height)
        cy2 == Min(y2, im.height)
        nw == IF ril_is_empty(im) \/ cx2 <= cx1 \/ cy2 <= cy1 THEN 0 ELSE cx2 - cx1
        nh == IF nw = 0 THEN 0 ELSE cy2 - cy1
    IN RilImage(nw, nh,
           [i \in 1..(nw * nh) |->
               ril_pixel(im, cx1 + ((i - 1) % nw), cy1 + ((i - 1) \div nw))])

\* nearest-neighbour resampling into a new width * height buffer; there is
\* nothing to sample in an empty source
ril_resize(im, width, height) ==
    IF width * height = 0 THEN Done(RilImage(width, height, <<>>))
    ELSE IF ril_is_empty(im) THEN Failed
    ELSE Done(RilImage(width, height,
           [i \in 1..(width * height) |->
               ril_pixel(im, (((i - 1) % width) * im.width) \div width,
                             (((i - 1) \div width) * im.height) \div height)]))

\* reverse the column order
ril_mirror(im) ==
    [im EXCEPT !.data = [i \in 1..Len(im.data) |->
        ril_pixel(im, im.width - 1 - ((i - 1) % im.width), (i - 1) \div im.width)]]

\* reverse the row order
ril_flip(im) ==
    [im EXCEPT !.data = [i \in 1..Len(im.data) |->
        ril_pixel(im, (i - 1) % im.width, im.height - 1 - ((i - 1) \div im.width))]]

ril_invert(im) ==
    [im EXCEPT !.data = [i \in 1..Len(im.data) |-> invert_pixel(im.data[i])]]

\* convert::<T>() of an image: every pixel converted
convert(im, tag) ==
    [im EXCEPT !.data = [i \in 1..Len(im.data) |-> convert_pixel(im.data[i], tag)]]

\* the destination cell that the source cell (sx, sy) = (dx - x, dy - y)
\* covers takes the source pixel (overlay mode "replace", which no method of
\* the class changes); cells outside the destination are clipped
ril_paste(dst, x, y, src) ==
    [dst EXCEPT !.data = [i \in 1..Len(dst.data) |->
        LET sx == ((i - 1) % dst.width) - x
            sy == ((i - 1) \div dst.width) - y
        IN IF ril_in_bounds(src, sx, sy) THEN ril_pixel(src, sx, sy)
           ELSE dst.data[i]]]

\* as ril_paste, each source cell gated by the bit mask's cell; the mask has
\* the source's dimensions (DimensionMismatch otherwise)
ril_paste_with_mask(dst, x, y, src, mask) ==
    IF mask.width # src.width \/ mask.height # src.height THEN Failed
    ELSE Done([dst EXCEPT !.data = [i \in 1..Len(dst.data) |->
        LET sx == ((i - 1) % dst.width) - x
            sy == ((i - 1) \div dst.width) - y
        IN IF ril_in_bounds(src, sx, sy) /\ ril_pixel(mask, sx, sy).on
           THEN ril_pixel(src, sx, sy)
           ELSE dst.data[i]]])

\* the alpha of every pixel replaced by the mask's luma; the destination
\* must be alpha-capable and of the mask's dimensions
ril_mask_alpha(im, mask) ==
    IF mask.width # im.width \/ mask.height # im.height THEN Failed
    ELSE IF \E i \in 1..Len(im.data) : im.data[i].tag # "Rgba" THEN Failed
    ELSE Done([im EXCEPT !.data = [i \in 1..Len(im.data) |->
        from_rgba(im.data[i].r, im.data[i].g, im.data[i].b, mask.data[i].value)]])

Channel(p, c) ==
    CASE c = 1 -> p.r
      [] c = 2 -> p.g
      [] c = 3 -> p.b
      [] c = 4 -> p.a

\* Banded::bands of an Rgb (n = 3) or Rgba (n = 4) image: one L image per
\* channel, each of the source's width and height
ril_bands(im, n) ==
    [c \in 1..n |->
        [im EXCEPT !.data = [i \in 1..Len(im.data) |-> from_l(Channel(im.data[i], c))]]]

\* Banded::from_bands of 3 or 4 L images; DimensionMismatch unless all have
\* the same width and height
ril_from_bands(bands) ==
    IF \E c \in 1..Len(bands) :
          bands[c].width # bands[1].width \/ bands[c].height # bands[1].height
    THEN Failed
    ELSE Done([bands[1] EXCEPT !.data = [i \in 1..Len(bands[1].data) |->
        IF Len(bands) = 3
        THEN from_rgb(bands[1].data[i].value, bands[2].data[i].value,
                      bands[3].data[i].value)
        ELSE from_rgba(bands[1].data[i].value, bands[2].data[i].value,
                       bands[3].data[i].value, bands[4].data[i].value)]])

(***************************************************************************)
(* Results of a method call.  Error::UnexpectedFormat carries two strings, *)
(* the expected format first and the format found second.                  *)
(***************************************************************************)
Res(kind, expected, got, msg) ==
    [kind |-> kind, expected |-> expected, got |-> got, msg |-> msg]

Ok == Res("Ok", "", "", <<>>)

\* a Rust panic: the call unwinds, the caller gets no Result
Panic == Res("Panic", "", "", <<>>)

UnexpectedFormat(first, second) == Res("UnexpectedFormat", first, second, <<>>)

PyTypeError(msg) == Res("TypeError", "", "", msg)

PyValueError(msg) == Res("ValueError", "", "", msg)

\* what a method leaves behind: the image, the result, the returned value
Outcome(im, res, val) == [img |-> im, result |-> res, ret |-> val]

\* what a constructor leaves behind: an image, or none
Constructed(im) == [alive |-> TRUE, img |-> im, result |-> Ok]

NotConstructed(res) == [alive |-> FALSE, img |-> EmptyImage, result |-> res]

(***************************************************************************)
(* The Image methods (image.rs).                                           *)
(***************************************************************************)
new(width, height, fill) == Constructed(ril_new(width, height, fill))

\* from_pixels without the engine's shape check
from_pixels_unchecked(width, pixels) ==
    IF width = 0 THEN NotConstructed(Panic)
    ELSE Constructed(RilImage(width, Len(pixels) \div width, pixels))

\* returns Self: a failed engine call has no error to return through
from_pixels(width, pixels) ==
    LET r == ril_from_pixels(width, pixels)
    IN IF r.ok THEN Constructed(r.img) ELSE NotConstructed(Panic)

\* the tag of pixel (0, 0); ok = FALSE when that read is out of bounds
mode(im) ==
    IF ~ril_in_bounds(im, 0, 0) THEN [ok |-> FALSE, val |-> ""]
    ELSE [ok |-> TRUE,
          val |-> CASE ril_pixel(im, 0, 0).tag = "BitPixel" -> "bitpixel"
                    [] ril_pixel(im, 0, 0).tag = "L"        -> "L"
                    [] ril_pixel(im, 0, 0).tag = "Rgb"      -> "RGB"
                    [] ril_pixel(im, 0, 0).tag = "Rgba"     -> "RGBA"]

width(im) == im.width

height(im) == im.height

dimensions(im) == <<im.width, im.height>>

bands(im) ==
    IF ~mode(im).ok THEN Outcome(im, Panic, <<>>)
    ELSE CASE mode(im).val = "RGB" ->
                Outcome(im, Ok, ril_bands(convert(im, "Rgb"), 3))
           [] mode(im).val = "RGBA" ->
                Outcome(im, Ok, ril_bands(convert(im, "Rgba"), 4))
           [] OTHER ->
                Outcome(im, UnexpectedFormat(mode(im).val, "Rgb or Rgba"), <<>>)

\* ensure_mode!: the first band, in order, whose mode is not "L" ends the
\* call; 0 when every band is in mode L
FirstNotL(bs) ==
    IF \A c \in 1..Len(bs) : mode(bs[c]).ok /\ mode(bs[c]).val = "L" THEN 0
    ELSE CHOOSE c \in 1..Len(bs) :
            /\ ~(mode(bs[c]).ok /\ mode(bs[c]).val = "L")
            /\ \A d \in 1..(c - 1) : mode(bs[d]).ok /\ mode(bs[d]).val = "L"

ensure_mode(bs) ==
    IF FirstNotL(bs) = 0 THEN Ok
    ELSE IF ~mode(bs[FirstNotL(bs)]).ok THEN Panic
    ELSE PyTypeError(<<"Expected mode L, got", mode(bs[FirstNotL(bs)]).val>>)

to_inner_bands(bs) == [c \in 1..Len(bs) |-> convert(bs[c], "L")]

from_bands(bs) ==
    IF Len(bs) \in {3, 4}
    THEN IF ensure_mode(bs) # Ok THEN NotConstructed(ensure_mode(bs))
         ELSE IF ~ril_from_bands(to_inner_bands(bs)).ok THEN NotConstructed(Panic)
         ELSE Constructed(ril_from_bands(to_inner_bands(bs)).img)
    ELSE NotConstructed(PyValueError(
             <<"Expected a tuple with 3 or 4 elements, got", Len(bs)>>))

crop(im, x1, y1, x2, y2) == Outcome(ril_crop(im, x1, y1, x2, y2), Ok, <<>>)

resize(im, w, h) ==
    IF ril_resize(im, w, h).ok THEN Outcome(ril_resize(im, w, h).img, Ok, <<>>)
    ELSE Outcome(im, Panic, <<>>)

\* paste that writes the source before it looks at the mask's mode
paste_before_check(im, x, y, image, mask) ==
    IF Len(mask) = 1 /\ mode(mask[1]).ok /\ mode(mask[1]).val # "bitpixel"
    THEN Outcome(ril_paste(im, x, y, image),
                 UnexpectedFormat("bitpixel", mode(mask[1]).val), <<>>)
    ELSE Outcome(ril_paste(im, x, y, image), Ok, <<>>)

\* paste that checks the mask's mode and then pastes without it
paste_ignoring_mask(im, x, y, image, mask) ==
    IF Len(mask) = 1 /\ ~mode(mask[1]).ok THEN Outcome(im, Panic, <<>>)
    ELSE IF Len(mask) = 1 /\ mode(mask[1]).val # "bitpixel"
    THEN Outcome(im, UnexpectedFormat("bitpixel", mode(mask[1]).val), <<>>)
    ELSE Outcome(ril_paste(im, x, y, image), Ok, <<>>)

\* mask is <<>> (None) or <<image>> (Some)
paste(im, x, y, image, mask) ==
    IF Len(mask) = 1
    THEN IF ~mode(mask[1]).ok THEN Outcome(im, Panic, <<>>)
         ELSE IF mode(mask[1]).val # "bitpixel"
         THEN Outcome(im, UnexpectedFormat("bitpixel", mode(mask[1]).val), <<>>)
         ELSE IF ~ril_paste_with_mask(im, x, y, image, convert(mask[1], "BitPixel")).ok
         THEN Outcome(im, Panic, <<>>)
         ELSE Outcome(
                ril_paste_with_mask(im, x, y, image, convert(mask[1], "BitPixel")).img,
                Ok, <<>>)
    ELSE Outcome(ril_paste(im, x, y, image), Ok, <<>>)

\* mask_alpha that builds its error with the two strings exchanged
mask_alpha_swapped(im, mask) ==
    IF ~mode(mask).ok THEN Outcome(im, Panic, <<>>)
    ELSE IF mode(mask).val # "L"
    THEN Outcome(im, UnexpectedFormat(mode(mask).val, "L"), <<>>)
    ELSE IF ~ril_mask_alpha(im, convert(mask, "L")).ok THEN Outcome(im, Panic, <<>>)
    ELSE Outcome(ril_mask_alpha(im, convert(mask, "L")).img, Ok, <<>>)

mask_alpha(im, mask) ==
    IF ~mode(mask).ok THEN Outcome(im, Panic, <<>>)
    ELSE IF mode(mask).val # "L"
    THEN Outcome(im, UnexpectedFormat("L", mode(mask).val), <<>>)
    ELSE IF ~ril_mask_alpha(im, convert(mask, "L")).ok THEN Outcome(im, Panic, <<>>)
    ELSE Outcome(ril_mask_alpha(im, convert(mask, "L")).img, Ok, <<>>)

mirror(im) == Outcome(ril_mirror(im), Ok, <<>>)

flip(im) == Outcome(ril_flip(im), Ok, <<>>)

invert(im) == Outcome(ril_invert(im), Ok, <<>>)

get_pixel(im, x, y) ==
    IF ril_in_bounds(im, x, y) THEN Outcome(im, Ok, <<ril_pixel(im, x, y)>>)
    ELSE Outcome(im, Panic, <<>>)

set_pixel(im, x, y, pixel) ==
    IF ril_set_pixel(im, x, y, pixel).ok
    THEN Outcome(ril_set_pixel(im, x, y, pixel).img, Ok, <<>>)
    ELSE Outcome(im, Panic, <<>>)

len(im) == Outcome(im, Ok, <<ril_len(im)>>)

repr(im) ==
    IF ~mode(im).ok THEN Outcome(im, Panic, <<>>)
    ELSE Outcome(im, Ok, <<"<Image mode=", mode(im).val, " width=", width(im),
                           " height=", height(im), " dimensions=", dimensions(im), ">">>)

bool(im) == Outcome(im, Ok, <<~ril_is_empty(im)>>)

(***************************************************************************)
(* Inputs.  The pixel values are chosen closed under invert, mask_alpha    *)
(* and from_bands, so that the reachable images stay few.                  *)
(***************************************************************************)
Palette ==
    {from_bitpixel(TRUE), from_l(255), from_rgb(255, 0, 0), from_rgba(255, 0, 0, 0)}

Coords == 0..MaxDim

Dims == {d \in Coords \X Coords : d[1] * d[2] <= MaxLen}

PixelSeqs == UNION {[1..n -> Palette] : n \in 0..MaxLen}

\* images handed to paste as the source
Sources ==
    {ril_new(d[1], d[2], p) : d \in {<<0, 0>>, <<1, 1>>, <<MaxLen, 1>>, <<1, MaxLen>>},
                              p \in {from_l(255), from_rgb(255, 0, 0)}}

\* bit masks of a given shape: all true, all false, alternating
BitMasks(w, h) ==
    { RilImage(w, h, [i \in 1..(w * h) |-> from_bitpixel(TRUE)]),
      RilImage(w, h, [i \in 1..(w * h) |-> from_bitpixel(FALSE)]),
      RilImage(w, h, [i \in 1..(w * h) |-> from_bitpixel(i % 2 = 1)]) }

\* the mask argument of paste: None, or Some(mask)
PasteMasks(src) ==
    {<<>>} \cup {<<m>> : m \in BitMasks(src.width, src.height) \cup
                              { ril_new(1, 1, from_bitpixel(TRUE)),
                                ril_new(1, 1, from_l(255)),
                                ril_new(1, 1, from_rgb(255, 0, 0)) }}

PasteOffsets == {<<0, 0>>, <<1, 0>>, <<0, 1>>}

\* crop boxes <<x1, y1, x2, y2>>
CropBoxes == Coords \X Coords \X Coords \X Coords

\* the mask argument of mask_alpha
AlphaMasks ==
    {ril_new(d[1], d[2], from_l(255)) : d \in Dims} \cup
    { ril_new(1, 1, from_rgb(255, 0, 0)), ril_new(1, 1, from_bitpixel(TRUE)),
      RilImage(1, MaxLen, [i \in 1..MaxLen |-> IF i = 1 THEN from_l(255)
                                                ELSE from_bitpixel(TRUE)]) }

BandArgs ==
    { ril_new(1, 1, from_l(255)), ril_new(1, 1, from_l(0)),
      ril_new(1, MaxLen, from_l(255)), ril_new(1, 1, from_rgb(255, 0, 0)) }

\* the arguments of from_bands: 3 or 4 bands, and a wrong count
BandPairs == {t \in BandArgs \X BandArgs : t[1] # t[2]}

BandTuples ==
    {<<t[1], t[2], t[2]>> : t \in BandPairs} \cup
    {<<t[1], t[2], t[2], t[2]>> : t \in BandPairs} \cup
    {<<a, a>> : a \in BandArgs}

(***************************************************************************)
(* The state machine: one Image object under test, the result and the      *)
(* returned value of the last call, and the last call with its arguments.  *)
(***************************************************************************)
Init ==
    /\ img = EmptyImage
    /\ alive = FALSE
    /\ result = Ok
    /\ ret = <<>>
    /\ last = [op |-> "idle"]

\* no call is being looked at: the caller is free to make the next one
Idle == last.op = "idle"

\* a constructor builds the object under test; there is one at a time
Construct(o, call) ==
    /\ img' = o.img
    /\ alive' = o.alive
    /\ result' = o.result
    /\ ret' = <<>>
    /\ last' = call

Call(o, call) ==
    /\ alive /\ Idle
    /\ img' = o.img
    /\ result' = o.result
    /\ ret' = o.ret
    /\ last' = call
    /\ UNCHANGED alive

New ==
    /\ ~alive /\ Idle
    /\ \E d \in Dims, fill \in Palette :
        Construct(new(d[1], d[2], fill), [op |-> "new"])

FromPixels ==
    /\ ~alive /\ Idle
    /\ \E w \in Coords, pixels \in PixelSeqs :
        Construct(from_pixels(w, pixels),
                  [op |-> "from_pixels", width |-> w, pixels |-> pixels])

FromBands ==
    \/ /\ ~alive /\ Idle
       /\ \E bs \in BandTuples :
          Construct(from_bands(bs), [op |-> "from_bands", bands |-> bs, origin |-> <<>>])
    \/ /\ alive /\ last.op = "bands" /\ result = Ok
       /\ Construct(from_bands(ret),
                    [op |-> "from_bands", bands |-> ret, origin |-> <<img>>])

Mode ==
    Call(IF mode(img).ok THEN Outcome(img, Ok, <<mode(img).val>>)
         ELSE Outcome(img, Panic, <<>>),
         [op |-> "mode"])

Bands == Call(bands(img), [op |-> "bands"])

Crop ==
    \E box \in CropBoxes :
        Call(crop(img, box[1], box[2], box[3], box[4]), [op |-> "crop"])

Resize == \E d \in Dims : Call(resize(img, d[1], d[2]), [op |-> "resize"])

Paste ==
    \E at \in PasteOffsets, image \in Sources :
        \E mask \in PasteMasks(image) :
            Call(paste(img, at[1], at[2], image, mask),
                 [op |-> "paste", pre |-> img, x |-> at[1], y |-> at[2],
                  image |-> image, mask |-> mask])

MaskAlpha ==
    \E mask \in AlphaMasks :
        Call(mask_alpha(img, mask), [op |-> "mask_alpha", pre |-> img, mask |-> mask])

Mirror == Call(mirror(img), [op |-> "mirror"])

Flip == Call(flip(img), [op |-> "flip"])

Invert == Call(invert(img), [op |-> "invert"])

GetPixel == \E x \in Coords, y \in Coords : Call(get_pixel(img, x, y), [op |-> "get_pixel"])

SetPixel ==
    \E x \in Coords, y \in Coords, pixel \in Palette :
        Call(set_pixel(img, x, y, pixel), [op |-> "set_pixel"])

LenCall == Call(len(img), [op |-> "len"])

Repr == Call(repr(img), [op |-> "repr"])

BoolCall == Call(bool(img), [op |-> "bool"])

\* the object goes out of scope
Drop ==
    /\ alive /\ Idle
    /\ img' = EmptyImage
    /\ alive' = FALSE
    /\ UNCHANGED <<result, ret, last>>

\* the caller has taken the result and the returned value of the last call
Return ==
    /\ ~Idle
    /\ result' = Ok
    /\ ret' = <<>>
    /\ last' = [op |-> "idle"]
    /\ UNCHANGED <<img, alive>>

Next ==
    \/ New \/ FromPixels \/ FromBands
    \/ Mode \/ Bands \/ Crop \/ Resize \/ Paste \/ MaskAlpha
    \/ Mirror \/ Flip \/ Invert \/ GetPixel \/ SetPixel
    \/ LenCall \/ Repr \/ BoolCall \/ Drop \/ Return

Spec == Init /\ [][Next]_vars

(***************************************************************************)
(* Properties.                                                             *)
(***************************************************************************)
Modes == {"bitpixel", "L", "RGB", "RGBA"}

SameShape(a, b) == a.width = b.width /\ a.height = b.height

AllTagged(im, tag) == \A i \in 1..Len(im.data) : im.data[i].tag = tag

\* C1: every pixel stored in an image's buffer carries the same variant tag,
\* whatever sequence of constructors and mutators built the image.
C1_UniformBuffer ==
    alive => \A i, j \in 1..Len(img.data) : img.data[i].tag = img.data[j].tag

\* C2: the number of stored pixels (__len__) of every constructed image is
\* width * height, after the constructor and after every mutating call.
C2_ShapeInvariant ==
    alive => len(img).ret = <<width(img) * height(img)>>

C2_Witness ==
    /\ alive /\ last.op = "crop" /\ result = Ok
    /\ width(img) = 1 /\ height(img) = 1 /\ len(img).ret = <<1>>

\* C3: bands() on an image whose mode is neither RGB nor RGBA fails with
\* UnexpectedFormat whose expected field is "Rgb or Rgba" and whose got field
\* is the image's mode.
C3_BandsFormatError ==
    (last.op = "bands" /\ mode(img).ok /\ mode(img).val \notin {"RGB", "RGBA"})
        => /\ result.kind = "UnexpectedFormat"
           /\ result.expected = "Rgb or Rgba"
           /\ result.got = mode(img).val

\* C4: paste with a mask whose mode is not bitpixel fails with
\* UnexpectedFormat{expected: "bitpixel", got: the mask's mode} and leaves the
\* destination's width, height and pixels as they were.
C4_PasteMaskModeCheck ==
    (/\ last.op = "paste" /\ Len(last.mask) = 1
     /\ mode(last.mask[1]).ok /\ mode(last.mask[1]).val # "bitpixel")
        => /\ result.kind = "UnexpectedFormat"
           /\ result.expected = "bitpixel"
           /\ result.got = mode(last.mask[1]).val
           /\ img = last.pre

\* a non-bitpixel mask over a source that an unmasked paste would have written
C4_Witness ==
    /\ last.op = "paste" /\ Len(last.mask) = 1
    /\ mode(last.mask[1]).ok /\ mode(last.mask[1]).val = "RGB"
    /\ result.kind = "UnexpectedFormat"
    /\ ril_paste(last.pre, last.x, last.y, last.image) # last.pre

\* C5 as stated: mask_alpha with a mask whose mode is not L fails with
\* UnexpectedFormat{expected: "L", got: the mask's mode} and leaves the image
\* unchanged; with an L-mode mask it returns success.
C5_MaskAlphaAsStated ==
    (last.op = "mask_alpha" /\ mode(last.mask).ok)
        => IF mode(last.mask).val # "L"
           THEN /\ result.kind = "UnexpectedFormat"
                /\ result.expected = "L"
                /\ result.got = mode(last.mask).val
                /\ img = last.pre
           ELSE result = Ok

\* C5 amended: mask_alpha with a mask whose mode is not L fails with
\* UnexpectedFormat{expected: "L", got: the mask's mode} and leaves the image
\* unchanged; with an L-mode mask of the image's own width and height, on an
\* image whose pixels are all RGBA, it returns success.
C5_MaskAlphaAmended ==
    (last.op = "mask_alpha" /\ mode(last.mask).ok)
        => IF mode(last.mask).val # "L"
           THEN /\ result.kind = "UnexpectedFormat"
                /\ result.expected = "L"
                /\ result.got = mode(last.mask).val
                /\ img = last.pre
           ELSE (SameShape(last.mask, last.pre) /\ AllTagged(last.pre, "Rgba"))
                    => result = Ok

C5_Witness ==
    /\ last.op = "mask_alpha" /\ mode(last.mask).ok
    /\ mode(last.mask).val = "RGB"
    /\ result.kind = "UnexpectedFormat" /\ result.got = "RGB"
    /\ ~ril_is_empty(last.pre) /\ AllTagged(last.pre, "Rgba")

\* C6: from_pixels(width, pixels) returns the recoverable ShapeError and
\* constructs no image when len(pixels) is not an exact multiple of width;
\* otherwise it returns an image of that width and of height len / width.
C6_FromPixelsShapeError ==
    (last.op = "from_pixels" /\ last.width > 0)
        => IF Len(last.pixels) % last.width # 0
           THEN result.kind = "ShapeError" /\ ~alive
           ELSE /\ alive /\ result = Ok
                /\ width(img) = last.width
                /\ height(img) = Len(last.pixels) \div last.width

\* C7: from_bands of 3 or 4 bands: a band in another mode than L yields
\* UnexpectedFormat{expected: "L", got: that mode}, bands of unequal
\* dimensions yield DimensionMismatch, and neither constructs an image; on
\* success the mode is RGB for 3 bands and RGBA for 4.
C7_FromBandsErrors ==
    (/\ last.op = "from_bands" /\ Len(last.bands) \in {3, 4}
     /\ \A c \in 1..Len(last.bands) : mode(last.bands[c]).ok)
        => IF \E c \in 1..Len(last.bands) : mode(last.bands[c]).val # "L"
           THEN /\ result.kind = "UnexpectedFormat"
                /\ result.expected = "L"
                /\ \E c \in 1..Len(last.bands) :
                      mode(last.bands[c]).val # "L" /\ result.got = mode(last.bands[c]).val
                /\ ~alive
           ELSE IF \E c \in 1..Len(last.bands) : ~SameShape(last.bands[c], last.bands[1])
           THEN result.kind = "DimensionMismatch" /\ ~alive
           ELSE /\ alive /\ result = Ok /\ mode(img).ok
                /\ mode(img).val = (IF Len(last.bands) = 3 THEN "RGB" ELSE "RGBA")

\* C8: a paste gated by a bitpixel mask of the source's dimensions leaves
\* every destination pixel unchanged when the mask is all false, and leaves
\* the destination as paste without a mask would when the mask is all true.
C8_MaskGating ==
    (/\ last.op = "paste" /\ Len(last.mask) = 1
     /\ SameShape(last.mask[1], last.image)
     /\ AllTagged(last.mask[1], "BitPixel"))
        => /\ (\A i \in 1..Len(last.mask[1].data) : ~last.mask[1].data[i].on)
                => img = last.pre
           /\ (\A i \in 1..Len(last.mask[1].data) : last.mask[1].data[i].on)
                => img = paste(last.pre, last.x, last.y, last.image, <<>>).img

\* an all-true mask under which the paste has changed the destination
C8_Witness ==
    /\ last.op = "paste" /\ Len(last.mask) = 1
    /\ SameShape(last.mask[1], last.image)
    /\ ~ril_is_empty(last.mask[1])
    /\ \A i \in 1..Len(last.mask[1].data) :
          last.mask[1].data[i].tag = "BitPixel" /\ last.mask[1].data[i].on
    /\ result = Ok /\ img # last.pre

\* C9: for every non-empty image of mode RGB (RGBA), bands() returns 3 (4)
\* L-mode images of the source's width and height, and from_bands of them
\* succeeds and yields an image equal to the original.
C9_BandRoundTrip ==
    /\ (/\ last.op = "bands" /\ ~ril_is_empty(img) /\ mode(img).ok
        /\ mode(img).val \in {"RGB", "RGBA"})
            => /\ result = Ok
               /\ Len(ret) = (IF mode(img).val = "RGB" THEN 3 ELSE 4)
               /\ \A c \in 1..Len(ret) :
                     /\ SameShape(ret[c], img)
                     /\ mode(ret[c]).ok /\ mode(ret[c]).val = "L"
    /\ (last.op = "from_bands" /\ Len(last.origin) = 1)
            => /\ alive /\ result = Ok
               /\ img = last.origin[1]

\* C10: mode() returns one of the four mode names on every reachable image,
\* zero-pixel images included, and __repr__ and bands, which call it, do not
\* fail on it either.
C10_ModeTotal ==
    /\ last.op = "mode" => (result = Ok /\ Len(ret) = 1 /\ ret[1] \in Modes)
    /\ last.op \in {"repr", "bands"} => result.kind # "Panic"

====
